---- MODULE Spec2Model ----
(***************************************************************************)
(* A model of src/loader.py: the CoNLL annotation parser load_file, the    *)
(* token normaliser clean_token, and the LazyVectors vocabulary table.     *)
(*                                                                         *)
(* Strings that clean_token inspects are sequences of one-character        *)
(* strings.  Python's None is the integer None (-1) where the field is an  *)
(* index, and the empty sequence where the field is a span.                *)
(***************************************************************************)
EXTENDS Integers, Sequences, FiniteSets, TLC

\* ------------------------------------------------------------------ bounds
\* Number of token records in the file that load_file reads.
MaxRecords == 2
\* Number of coreference-column entries in the whole file.
MaxEntries == 3
\* Number of two-field lines that end a document.
MaxDocs == 1
\* Number of '|'-separated entries in one coreference column.
MaxLabelTokens == 2
\* Length of the vocabulary handed to LazyVectors.set_vocab.
MaxVocab == 3
\* Length of a raw token handed to clean_token.
MaxTokLen == 3
\* Number of sentence-ending tokens in the Document truncate is called on,
\* and the largest argument MAX.
MaxSentences == 52
\* Number of words before each sentence-ending token, and after the last.
MaxWords == 1
\* Number of files under the directory read_corpus walks.
MaxFiles == 2
\* Number of Documents load_file returns for one file.
MaxFileDocs == 2

\* ------------------------------------------------------------ Python values
None == -1
\* The loop variable i of load_file before its first assignment.
Unbound == -2

\* --------------------------------------------------------------- clean_token
NORMALIZE_DICT ==
    [k \in { <<"/", ".">>, <<"/", "?">>,
             <<"-", "L", "R", "B", "-">>, <<"-", "R", "R", "B", "-">>,
             <<"-", "L", "C", "B", "-">>, <<"-", "R", "C", "B", "-">>,
             <<"-", "L", "S", "B", "-">>, <<"-", "R", "S", "B", "-">> } |->
        CASE k = <<"/", ".">> -> <<".">>
          [] k = <<"/", "?">> -> <<"?">>
          [] k = <<"-", "L", "R", "B", "-">> -> <<"(">>
          [] k = <<"-", "R", "R", "B", "-">> -> <<")">>
          [] k = <<"-", "L", "C", "B", "-">> -> <<"{">>
          [] k = <<"-", "R", "C", "B", "-">> -> <<"}">>
          [] k = <<"-", "L", "S", "B", "-">> -> <<"[">>
          [] k = <<"-", "R", "S", "B", "-">> -> <<"]">>]

REMOVED_CHAR == <<"/", "%", "*">>

\* A test that holds of every token made of removed characters only.
OnlyRemovedChars(token) ==
    \A k \in 1..Len(token) : \E r \in 1..Len(REMOVED_CHAR) : token[k] = REMOVED_CHAR[r]

\* token in REMOVED_CHAR: membership of the whole token in the list.
InRemovedChar(token) ==
    \E k \in 1..Len(REMOVED_CHAR) : token = <<REMOVED_CHAR[k]>>

\* str.replace(char, u''): every occurrence of char is removed.
RECURSIVE Replace(_, _)
Replace(s, char) ==
    IF s = <<>> THEN <<>>
    ELSE IF Head(s) = char THEN Replace(Tail(s), char)
    ELSE <<Head(s)>> \o Replace(Tail(s), char)

\* for char in REMOVED_CHAR: cleaned_token = cleaned_token.replace(char, u'')
RECURSIVE StripRemoved(_, _)
StripRemoved(s, k) ==
    IF k > Len(REMOVED_CHAR) THEN s
    ELSE StripRemoved(Replace(s, REMOVED_CHAR[k]), k + 1)

\* clean_token without its last two statements.
clean_token_unguarded(token) ==
    LET t1 == IF token \in DOMAIN NORMALIZE_DICT THEN NORMALIZE_DICT[token]
              ELSE token
    IN IF ~InRemovedChar(t1) THEN StripRemoved(t1, 1) ELSE t1

clean_token(token) ==
    LET t1 == IF token \in DOMAIN NORMALIZE_DICT THEN NORMALIZE_DICT[token]
              ELSE token
        t2 == IF ~InRemovedChar(t1) THEN StripRemoved(t1, 1) ELSE t1
    IN IF Len(t2) = 0 THEN <<",">> ELSE t2

\* ------------------------------------------------------ load_file: the input
\* Cluster labels of the coreference column.
Labels == {5, 6}
\* The file's genre, filename.split('/')[6].
genre == "nw"

\* One '|'-separated entry of the coreference column, as the pattern
\* ^(\(?)(\d+)(\)?)$ splits it: group 1, group 2, group 3.
LabelTokens == [open : BOOLEAN, label : Labels, close : BOOLEAN]

RECURSIVE SeqsUpTo(_, _)
SeqsUpTo(S, n) ==
    IF n = 0 THEN { <<>> }
    ELSE LET shorter == SeqsUpTo(S, n - 1)
         IN shorter \cup { Append(s, x) : s \in shorter, x \in S }

\* The last column of a token record: <<>> is u'-', otherwise its entries.
CorefExprs == SeqsUpTo(LabelTokens, MaxLabelTokens)

\* The token records of the input: field 3 (the token's text), field 9 (its
\* speaker) and the coreference column.  Speaker A's records carry any
\* coreference column, speaker B's sentence-final record carries none.
TokenRecords ==
    { [raw |-> <<"h", "e">>, spk |-> "A", expr |-> e] : e \in CorefExprs }
    \cup { [raw |-> <<"/", ".">>, spk |-> "B", expr |-> <<>>] }


\* ------------------------------------------------------ load_file: the state
VARIABLES
    tokens,        \* tokens of the current document, flushed utterances only
    text,          \* tokens of the utterance being read
    utts_corefs,   \* mentions of the current document, flushed utterances only
    utts_speakers, \* speakers of the current document, flushed utterances only
    corefs,        \* mentions of the utterance being read
    index,         \* running token index
    speaker,       \* speaker field of the last token record
    i,             \* loop variable of the close-marker scan
    documents,     \* the Documents appended so far
    coref_expr,    \* entries of the current record's coreference column still to process
    pc,            \* "line": between lines; "labels": inside for token in coref_expr;
                   \* "done": returned documents; "error": an exception left load_file
    err,           \* the exception, "" while there is none
    \* History of the input, read by the guards that bound it and by the
    \* properties only.
    nrec,          \* token records read so far
    nent,          \* coreference-column entries read so far
    doc_recs,      \* fields 3 and 9 of the token records read since the last
                   \* two-field line
    wf,            \* the lines read so far are well formed
    open_cnt,      \* per label: opens minus closes in the utterance being read
    in_utt         \* a token record was read since the last blank or two-field line

\* --------------------------------------------------- LazyVectors: the state
VARIABLES
    vocab,         \* self.vocab, a list; meaningful when has_vocab
    has_vocab,     \* self.vocab is not None
    skim,          \* self.skim: None or a cap K >= 0
    has_dicts,     \* the attributes _stoi and _itos exist
    d_stoi,        \* self._stoi
    d_itos,        \* self._itos
    loaded,        \* the cached property loader has been computed
    loads,         \* history: how often Vectors(name, cache) was constructed
    ret            \* the last call and what it returned or raised

\* --------------------------------------------------- clean_token: the state
VARIABLES
    ct_token,      \* the argument token
    cleaned_token, \* the local cleaned_token; the return value at "return"
    ct_pc          \* "idle": no call; "call": entered; "return": returned

\* ---------------------------------------------- Document.truncate: the state
VARIABLES
    doc,           \* self, the Document truncate is called on
    MAX,           \* the argument MAX
    sample,        \* i, the element random.sample drew; None before
    truncated,     \* the returned Document
    t_pc           \* "idle", "call", "return", "error"

\* --------------------------------------------------- read_corpus: the state
VARIABLES
    dir,           \* the files os.walk finds under dirname
    train_corpus,  \* the Corpus read_corpus returned
    c_pc           \* "idle", "start", "corpus": train_corpus is bound,
                   \* "vectors": VECTORS is bound

loadVars == <<tokens, text, utts_corefs, utts_speakers, corefs, index, speaker, i,
              documents, coref_expr, pc, err, nrec, nent, doc_recs, wf, open_cnt,
              in_utt>>
vecVars == <<vocab, has_vocab, skim, has_dicts, d_stoi, d_itos, loaded, loads, ret>>
cleanVars == <<ct_token, cleaned_token, ct_pc>>
truncVars == <<doc, MAX, sample, truncated, t_pc>>
corpusVars == <<dir, train_corpus, c_pc>>
vars == <<loadVars, vecVars, cleanVars, truncVars, corpusVars>>

\* What a step of one component leaves alone.
notLoadVars == <<vecVars, cleanVars, truncVars, corpusVars>>
notVecVars == <<loadVars, cleanVars, truncVars, corpusVars>>
notCleanVars == <<loadVars, vecVars, truncVars, corpusVars>>
notTruncVars == <<loadVars, vecVars, cleanVars, corpusVars>>

\* --------------------------------------------------- load_file: the helpers
\* corefs.append({'label': label, 'start': index, 'end': None, 'span': None})
OpenMention(cs, label, idx) ==
    Append(cs, [label |-> label, start |-> idx, end |-> None, span |-> <<>>])

\* A scan that starts at the oldest mention instead of the newest.
ScanUp(cs, label, j) ==
    LET hits == { k \in 0..j : cs[k + 1].label = label /\ cs[k + 1].end = None }
    IN IF hits = {} THEN 0 ELSE CHOOSE k \in hits : \A h \in hits : k <= h

\* for i in range(len(corefs)-1, -1, -1):
\*     if corefs[i]['label'] == label and corefs[i]['end'] is None: break
\* from the 0-based position j downwards; the value of i when the loop ends.
RECURSIVE ScanDown(_, _, _)
ScanDown(cs, label, j) ==
    IF cs[j + 1].label = label /\ cs[j + 1].end = None THEN j
    ELSE IF j = 0 THEN 0
    ELSE ScanDown(cs, label, j - 1)

\* i after the for statement: an empty range leaves i as it was.
LoopVar(cs, label, iold) ==
    IF Len(cs) = 0 THEN iold ELSE ScanDown(cs, label, Len(cs) - 1)

\* An end that is one token short.
SetEndShort(cs, j, idx) == [cs EXCEPT ![j + 1].end = idx - 1]

\* corefs[i]['end'] = index
SetEnd(cs, j, idx) == [cs EXCEPT ![j + 1].end = idx]

\* A counter that advances with every entry of the coreference column.
IndexPerEntry(idx, rest) == idx + 1

\* index += 1, the statement after the if on cols[-1]: it runs once per token
\* record, when no entry of the coreference column is left to process.
IndexAfter(idx, rest) == IF rest = <<>> THEN idx + 1 ELSE idx

\* One speaker entry for the whole utterance.
OneSpeaker(spk, txt) == <<spk>>

\* [speaker]*len(text)
UtteranceSpeakers(spk, txt) == [k \in 1..Len(txt) |-> spk]

\* Some mention of the list has no end yet.
Unresolved(cs) == \E k \in 1..Len(cs) : cs[k].end = None

\* fix_coref_spans: materialises each mention's span, the token indices from
\* start to end inclusive.
FixCorefSpans(cs) ==
    [k \in 1..Len(cs) |->
        [cs[k] EXCEPT !.span = [j \in 1..(cs[k].end - cs[k].start + 1) |->
                                    cs[k].start + j - 1]]]

Document(toks, crfs, spks, gnr) ==
    [tokens |-> toks, corefs |-> crfs, speakers |-> spks, genre |-> gnr]

\* --------------------------------------------------- load_file: the actions
\* tokens, text, utts_corefs, utts_speakers, corefs, index = [], [], [], [], [], 0
InitLoad ==
    /\ tokens = <<>>
    /\ text = <<>>
    /\ utts_corefs = <<>>
    /\ utts_speakers = <<>>
    /\ corefs = <<>>
    /\ index = 0
    /\ speaker = "unbound"
    /\ i = Unbound
    /\ documents = <<>>
    /\ coref_expr = <<>>
    /\ pc = "line"
    /\ err = ""
    /\ nrec = 0
    /\ nent = 0
    /\ doc_recs = <<>>
    /\ wf = TRUE
    /\ open_cnt = [l \in Labels |-> 0]
    /\ in_utt = FALSE

ReadsLine == pc = "line"

NoOpenLabel == [l \in Labels |-> 0]

\* load_file is left: its local variables are gone.
FrameDropped ==
    /\ tokens' = <<>>
    /\ text' = <<>>
    /\ utts_corefs' = <<>>
    /\ utts_speakers' = <<>>
    /\ corefs' = <<>>
    /\ index' = 0
    /\ speaker' = "unbound"
    /\ i' = Unbound
    /\ coref_expr' = <<>>
    /\ nrec' = 0
    /\ nent' = 0
    /\ doc_recs' = <<>>
    /\ open_cnt' = NoOpenLabel
    /\ in_utt' = FALSE

\* An exception leaves load_file: nothing is returned.
Raise(e) ==
    /\ pc' = "error"
    /\ err' = e
    /\ documents' = <<>>
    /\ FrameDropped

\* len(cols) == 0: the end of an utterance.  With text accumulated the
\* utterance is flushed into the document's lists; otherwise nothing changes.
BlankLine ==
    /\ ReadsLine
    /\ UNCHANGED notLoadVars
    /\ IF text # <<>>
       THEN /\ tokens' = tokens \o text
            /\ utts_corefs' = utts_corefs \o corefs
            /\ utts_speakers' = utts_speakers \o UtteranceSpeakers(speaker, text)
            /\ text' = <<>>
            /\ corefs' = <<>>
       ELSE UNCHANGED <<tokens, utts_corefs, utts_speakers, text, corefs>>
    /\ wf' = (wf /\ open_cnt = NoOpenLabel)
    /\ open_cnt' = NoOpenLabel
    /\ in_utt' = FALSE
    /\ UNCHANGED <<index, speaker, i, documents, coref_expr, pc, err, nrec, nent,
                   doc_recs>>

\* len(cols) == 2: the end of a document.  fix_coref_spans refuses a mention
\* without an end; otherwise the Document is appended and the lists reset.
DocEndLine ==
    /\ ReadsLine
    /\ UNCHANGED notLoadVars
    /\ Len(documents) < MaxDocs
    /\ wf' = (wf /\ ~in_utt /\ open_cnt = NoOpenLabel)
    /\ IF Unresolved(utts_corefs)
       THEN Raise("MalformedAnnotation")
       ELSE /\ documents' = Append(documents,
                                   Document(tokens, FixCorefSpans(utts_corefs),
                                            utts_speakers, genre))
            /\ tokens' = <<>>
            /\ text' = <<>>
            /\ utts_corefs' = <<>>
            /\ utts_speakers' = <<>>
            /\ index' = 0
            /\ doc_recs' = <<>>
            /\ open_cnt' = NoOpenLabel
            /\ in_utt' = FALSE
            /\ UNCHANGED <<pc, err, corefs, speaker, i, coref_expr, nrec, nent>>

\* One field, or three to seven: the else branch, continue.
IgnoredLine ==
    /\ ReadsLine
    /\ UNCHANGED notLoadVars
    /\ UNCHANGED <<tokens, text, utts_corefs, utts_speakers, corefs, index, speaker,
                   i, documents, coref_expr, pc, err, nrec, nent, doc_recs, wf,
                   open_cnt, in_utt>>

\* Eight or nine fields: len(cols) > 7 holds, text is appended, cols[9] raises.
ShortRecord ==
    /\ ReadsLine
    /\ UNCHANGED notLoadVars
    /\ nrec < MaxRecords
    /\ wf' = FALSE
    /\ Raise("IndexError")

\* len(cols) > 7 with ten fields or more: a token record.  The entries of the
\* coreference column are processed one by one by LabelToken; with the column
\* u'-' the record is complete here.
TokenRecord ==
    /\ ReadsLine
    /\ UNCHANGED notLoadVars
    /\ nrec < MaxRecords
    /\ nrec' = nrec + 1
    /\ \E rec \in TokenRecords :
          /\ nent + Len(rec.expr) <= MaxEntries
          /\ nent' = nent + Len(rec.expr)
          /\ text' = Append(text, clean_token(rec.raw))
          /\ speaker' = rec.spk
          /\ coref_expr' = rec.expr
          /\ doc_recs' = Append(doc_recs, [raw |-> rec.raw, spk |-> rec.spk])
          /\ index' = IndexAfter(index, rec.expr)
          /\ pc' = IF rec.expr = <<>> THEN "line" ELSE "labels"
    /\ in_utt' = TRUE
    /\ UNCHANGED <<tokens, utts_corefs, utts_speakers, corefs, i, documents, err,
                   wf, open_cnt>>

\* One iteration of for token in coref_expr; after the last one, index += 1.
LabelToken ==
    /\ pc = "labels"
    /\ UNCHANGED notLoadVars
    /\ LET tok == Head(coref_expr)
           cs1 == IF tok.open THEN OpenMention(corefs, tok.label, index) ELSE corefs
           i1 == IF tok.close THEN LoopVar(cs1, tok.label, i) ELSE i
           cnt1 == IF tok.open THEN [open_cnt EXCEPT ![tok.label] = @ + 1]
                   ELSE open_cnt
       IN /\ wf' = (wf /\ (tok.close => cnt1[tok.label] > 0))
          /\ IF tok.close /\ Len(cs1) = 0
             THEN \* corefs[i] on the empty list
                  Raise(IF i1 = Unbound THEN "UnboundLocalError" ELSE "IndexError")
             ELSE /\ i' = i1
                  /\ corefs' = IF tok.close THEN SetEnd(cs1, i1, index) ELSE cs1
                  /\ coref_expr' = Tail(coref_expr)
                  /\ index' = IndexAfter(index, Tail(coref_expr))
                  /\ pc' = IF Tail(coref_expr) = <<>> THEN "line" ELSE "labels"
                  /\ open_cnt' = IF tok.close /\ cnt1[tok.label] > 0
                                 THEN [cnt1 EXCEPT ![tok.label] = @ - 1]
                                 ELSE cnt1
                  /\ UNCHANGED <<tokens, text, utts_corefs, utts_speakers, speaker,
                                 documents, err, nrec, nent, doc_recs, in_utt>>

\* The file is exhausted: return documents.
EndOfFile ==
    /\ pc = "line"
    /\ UNCHANGED notLoadVars
    /\ pc' = "done"
    /\ FrameDropped
    /\ UNCHANGED <<documents, err, wf>>

\* --------------------------------------------------- LazyVectors: the model
\* unk_idx = 1
unk_idx == 1

\* Tokens a vocabulary may hold.
Words == {"the", "cat", "sat", "zzz"}

\* The external resource, Vectors(name, cache): its stoi maps each token it
\* knows to its own index, its vectors hold one row of dim numbers per index.
loader_stoi == [w \in {"the", "cat", "sat"} |->
                   CASE w = "sat" -> 0 [] w = "the" -> 1 [] w = "cat" -> 2]
loader_dim == 2
loader_vectors == [n \in 0..2 |-> [k \in 1..loader_dim |-> 10 * (n + 1) + k]]

\* torch.zeros((2, self.loader.dim))
ZeroRows == [r \in 1..2 |-> [k \in 1..loader_dim |-> 0]]

\* Vocabularies handed to the constructor and to set_vocab, in iteration order.
Vocabs == SeqsUpTo(Words, MaxVocab)
\* Values of skim: None, or a cap K.
Skims == {None} \cup (0..MaxVocab)

\* [v for v in vocab if v in self.loader.stoi]
RECURSIVE Intersect(_)
Intersect(v) ==
    IF v = <<>> THEN <<>>
    ELSE IF Head(v) \in DOMAIN loader_stoi
         THEN <<Head(v)>> \o Intersect(Tail(v))
         ELSE Intersect(Tail(v))

\* lst[:skim]
Slice(lst, k) ==
    IF k = None \/ k >= Len(lst) THEN lst ELSE SubSeq(lst, 1, k)

\* The working vocabulary set_vocab computes.
WorkingVocab(v, k) == Slice(Intersect(v), k)

\* self._stoi = {s: i for i, s in enumerate(self.vocab)}: a repeated token
\* keeps its last position.
BuildStoi(voc) ==
    [w \in { voc[k] : k \in 1..Len(voc) } |->
        (CHOOSE k \in 1..Len(voc) :
            voc[k] = w /\ \A j \in 1..Len(voc) : voc[j] = w => j <= k) - 1]

\* self._itos = {i: s for s, i in self._stoi.items()}
BuildItos(st) ==
    [n \in { st[w] : w \in DOMAIN st } |-> CHOOSE w \in DOMAIN st : st[w] = n]

\* idx = self._stoi.get(s); return idx + 2 if idx else self.unk_idx
\* (None and 0 are both false).
StoiOf(st, s) ==
    LET idx == IF s \in DOMAIN st THEN st[s] ELSE None
    IN IF idx # None /\ idx # 0 THEN idx + 2 ELSE unk_idx

\* token = self._itos.get(i); return token if token else 'UNK'
\* (None and '' are both false).
ItosOf(it, n) ==
    IF n \in DOMAIN it /\ it[n] # "" THEN it[n] ELSE "UNK"

\* torch.cat([torch.zeros((2, dim)), torch.stack([vectors[stoi[s]] for s in vocab])])
WeightsOf(voc) ==
    ZeroRows \o [k \in 1..Len(voc) |-> loader_vectors[loader_stoi[voc[k]]]]

\* A property that constructs the resource at every access.
UncachedLoads(isLoaded, n) == n + 1

\* self.loader, a cached_property: Vectors(self.name, cache=self.cache) is
\* constructed at the first access only.  The number of constructions after
\* an access.
LoaderLoads(isLoaded, n) == IF isLoaded THEN n ELSE n + 1

\* What a call returned or raised.
Ret(op, tok, idx, rows, e) ==
    [op |-> op, tok |-> tok, idx |-> idx, rows |-> rows, err |-> e]

\* LazyVectors(skim=k) and LazyVectors(skim=k, vocab=v): __init__ stores its
\* arguments and calls set_vocab only when a vocabulary is given.
InitVec ==
    /\ skim \in Skims
    /\ \/ /\ has_vocab = FALSE
          /\ vocab = <<>>
          /\ has_dicts = FALSE
          /\ d_stoi = <<>>
          /\ d_itos = <<>>
          /\ loaded = FALSE
          /\ loads = 0
       \/ \E v \in Vocabs :
          /\ has_vocab = TRUE
          /\ vocab = WorkingVocab(v, skim)
          /\ has_dicts = TRUE
          /\ d_stoi = BuildStoi(vocab)
          /\ d_itos = BuildItos(d_stoi)
          /\ loaded = TRUE
          /\ loads = LoaderLoads(FALSE, 0)
    /\ ret = Ret("init", "", 0, <<>>, "")

\* set_vocab(v): the loader is computed on first use, the vocabulary is
\* intersected with it and capped, and set_dicts rebuilds both dictionaries.
SetVocab ==
    /\ UNCHANGED notVecVars
    /\ \E v \in Vocabs :
          /\ vocab' = WorkingVocab(v, skim)
          /\ d_stoi' = BuildStoi(vocab')
          /\ d_itos' = BuildItos(d_stoi')
    /\ has_vocab' = TRUE
    /\ has_dicts' = TRUE
    /\ loaded' = TRUE
    /\ loads' = LoaderLoads(loaded, loads)
    /\ ret' = Ret("set_vocab", "", 0, <<>>, "")
    /\ skim' = skim

\* stoi(s): without the attribute _stoi the lookup raises.
CallStoi ==
    /\ UNCHANGED notVecVars
    /\ \E s \in Words :
          ret' = IF has_dicts
                 THEN Ret("stoi", s, StoiOf(d_stoi, s), <<>>, "")
                 ELSE Ret("stoi", s, 0, <<>>, "AttributeError")
    /\ UNCHANGED <<vocab, has_vocab, skim, has_dicts, d_stoi, d_itos, loaded, loads>>

\* itos(n): without the attribute _itos the lookup raises.
CallItos ==
    /\ UNCHANGED notVecVars
    /\ \E n \in 0..(MaxVocab + 2) :
          ret' = IF has_dicts
                 THEN Ret("itos", ItosOf(d_itos, n), n, <<>>, "")
                 ELSE Ret("itos", "", n, <<>>, "AttributeError")
    /\ UNCHANGED <<vocab, has_vocab, skim, has_dicts, d_stoi, d_itos, loaded, loads>>

\* weights(): iterating a vocabulary that is None raises, torch.stack of an
\* empty list raises; both before the loader is touched.
CallWeights ==
    /\ UNCHANGED notVecVars
    /\ IF ~has_vocab
       THEN /\ ret' = Ret("weights", "", 0, <<>>, "TypeError")
            /\ UNCHANGED <<loaded, loads>>
       ELSE IF vocab = <<>>
       THEN /\ ret' = Ret("weights", "", 0, <<>>, "RuntimeError")
            /\ UNCHANGED <<loaded, loads>>
       ELSE /\ ret' = Ret("weights", "", 0, WeightsOf(vocab), "")
            /\ loaded' = TRUE
            /\ loads' = LoaderLoads(loaded, loads)
    /\ UNCHANGED <<vocab, has_vocab, skim, has_dicts, d_stoi, d_itos>>

\* ------------------------------------------------- clean_token: the calls
\* Characters of the raw tokens: the removed ones, a letter, the comma and
\* the full stop.
TokenChars == {"/", "%", "*", "a", ",", "."}

\* Raw tokens: every string up to MaxTokLen, and the bracket-escape codes.
RawTokens == SeqsUpTo(TokenChars, MaxTokLen) \cup DOMAIN NORMALIZE_DICT

IdleClean ==
    /\ ct_token = <<>>
    /\ cleaned_token = <<>>
    /\ ct_pc = "idle"

\* cleaned_token = token
InitClean ==
    /\ ct_token \in RawTokens
    /\ cleaned_token = ct_token
    /\ ct_pc = "call"

CleanToken ==
    /\ ct_pc = "call"
    /\ cleaned_token' = clean_token(ct_token)
    /\ ct_pc' = "return"
    /\ UNCHANGED ct_token
    /\ UNCHANGED notCleanVars

\* -------------------------------------------------------- Document.truncate
\* The 50 of sentences[i-50].
LookBack == 50

\* ['.', '?', '!']
SentenceEnders == { <<".">>, <<"?">>, <<"!">> }

\* The Documents truncate is called on: n sentences of w words and a
\* sentence-ending token each, then t more words; speakers alternate, and one
\* mention spans the whole document.
SentenceEnder(k) == IF k % 3 = 1 THEN <<".">> ELSE IF k % 3 = 2 THEN <<"?">> ELSE <<"!">>

DocumentTokens(n, w, t) ==
    [p \in 1..(n * (w + 1) + t) |->
        IF p <= n * (w + 1) /\ p % (w + 1) = 0 THEN SentenceEnder(p \div (w + 1))
        ELSE <<"h", "e">>]

DocumentOf(n, w, t) ==
    LET toks == DocumentTokens(n, w, t)
    IN Document(toks,
                IF toks = <<>> THEN <<>>
                ELSE <<[label |-> 5, start |-> 0, end |-> Len(toks) - 1, span |-> <<>>]>>,
                [p \in 1..Len(toks) |-> IF p % 2 = 1 THEN "A" ELSE "B"],
                genre)

\* Python's lst[k]: a negative k counts from the end; k outside
\* -len(lst)..len(lst)-1 raises IndexError.
InRange(lst, k) == -Len(lst) <= k /\ k < Len(lst)
PyIndex(lst, k) == IF k >= 0 THEN lst[k + 1] ELSE lst[Len(lst) + k + 1]

\* Python's lst[a:b] for a, b >= 0: the elements at a, ..., b-1.
PySlice(lst, a, b) ==
    LET hi == IF b > Len(lst) THEN Len(lst) ELSE b
    IN IF a >= hi THEN <<>> ELSE SubSeq(lst, a + 1, hi)

\* [idx for idx, token in enumerate(self.tokens) if token in ['.', '?', '!']]
sentences(toks) ==
    SelectSeq([p \in 1..Len(toks) |-> p - 1], LAMBDA idx : toks[idx + 1] \in SentenceEnders)

IdleTrunc ==
    /\ doc = Document(<<>>, <<>>, <<>>, genre)
    /\ MAX = LookBack
    /\ sample = None
    /\ truncated = Document(<<>>, <<>>, <<>>, genre)
    /\ t_pc = "idle"

InitTrunc ==
    /\ \E n \in 0..MaxSentences, w \in 0..MaxWords, t \in 0..MaxWords :
          doc = DocumentOf(n, w, t)
    /\ MAX \in 1..MaxSentences
    /\ sample = None
    /\ truncated = Document(<<>>, <<>>, <<>>, genre)
    /\ t_pc = "call"

\* truncate(MAX): i is any element of range(MAX, len(sentences));
\* sentences[i-50] raises IndexError when i - 50 < -len(sentences); the new
\* Document takes the slice of the tokens and copies of corefs, speakers
\* and genre.
Truncate ==
    /\ t_pc = "call"
    /\ LET snt == sentences(doc.tokens)
       IN IF Len(snt) > MAX
          THEN \E j \in MAX..(Len(snt) - 1) :
                  /\ sample' = j
                  /\ IF InRange(snt, j - LookBack)
                     THEN /\ truncated' =
                               Document(PySlice(doc.tokens, PyIndex(snt, j - LookBack),
                                                PyIndex(snt, j)),
                                        doc.corefs, doc.speakers, doc.genre)
                          /\ t_pc' = "return"
                     ELSE /\ truncated' = truncated
                          /\ t_pc' = "error"
          ELSE /\ sample' = None
               /\ truncated' = doc
               /\ t_pc' = "return"
    /\ UNCHANGED <<doc, MAX>>
    /\ UNCHANGED notTruncVars

\* ----------------------------------------- read_corpus and the module level
\* The characters of each token a vocabulary may hold.
WordChars == [w \in Words |->
                 CASE w = "the" -> {"t", "h", "e"}
                   [] w = "cat" -> {"c", "a", "t"}
                   [] w = "sat" -> {"s", "a", "t"}
                   [] w = "zzz" -> {"z"}]

\* Token lists of the Documents in the files.
TokenLists == { <<"the", "cat">>, <<"zzz", "sat", "the">> }

\* The Documents load_file returns for one file.
FileDocuments ==
    SeqsUpTo({ Document(t, <<>>, [k \in 1..Len(t) |-> "A"], genre) : t \in TokenLists },
             MaxFileDocs)

\* A file under dirname: whether its name matches *gold_conll, and what
\* load_file returns for it.
Files == [gold : BOOLEAN, docs : FileDocuments]

\* parse_filenames: the files whose name matches the pattern, in walk order.
parse_filenames(d) == SelectSeq(d, LAMBDA f : f.gold)

\* flatten([load_file(file) for file in conll_files])
RECURSIVE flatten(_)
flatten(files) ==
    IF files = <<>> THEN <<>> ELSE Head(files).docs \o flatten(Tail(files))

\* Corpus.get_vocab
get_vocab(docs) ==
    LET vocabulary == UNION { { docs[k].tokens[j] : j \in 1..Len(docs[k].tokens) }
                                : k \in 1..Len(docs) }
    IN <<vocabulary, UNION { WordChars[w] : w \in vocabulary }>>

\* Corpus(documents)
Corpus(docs) ==
    [documents |-> docs, vocab |-> get_vocab(docs)[1], char_vocab |-> get_vocab(docs)[2]]

\* The orders in which iterating a set can yield its elements.
IterationOrders(S) ==
    { o \in [1..Cardinality(S) -> S] : \A x \in S : \E k \in 1..Cardinality(S) : o[k] = x }

IdleCorpus ==
    /\ dir = <<>>
    /\ train_corpus = Corpus(<<>>)
    /\ c_pc = "idle"

InitCorpus ==
    /\ dir \in SeqsUpTo(Files, MaxFiles)
    /\ train_corpus = Corpus(<<>>)
    /\ c_pc = "start"

\* train_corpus = read_corpus('../data/train/')
ReadCorpus ==
    /\ c_pc = "start"
    /\ train_corpus' = Corpus(flatten(parse_filenames(dir)))
    /\ c_pc' = "corpus"
    /\ UNCHANGED dir
    /\ UNCHANGED <<loadVars, vecVars, cleanVars, truncVars>>

\* VECTORS = LazyVectors.from_corpus(train_corpus.vocab): cls(vocab=...), so
\* skim is None and __init__ calls set_vocab on the set unless it is None.
FromCorpus ==
    /\ c_pc = "corpus"
    /\ \E o \in IterationOrders(train_corpus.vocab) :
          /\ vocab' = WorkingVocab(o, None)
          /\ d_stoi' = BuildStoi(vocab')
          /\ d_itos' = BuildItos(d_stoi')
    /\ skim' = None
    /\ has_vocab' = TRUE
    /\ has_dicts' = TRUE
    /\ loaded' = TRUE
    /\ loads' = LoaderLoads(loaded, loads)
    /\ ret' = Ret("init", "", 0, <<>>, "")
    /\ c_pc' = "vectors"
    /\ UNCHANGED <<dir, train_corpus>>
    /\ UNCHANGED <<loadVars, cleanVars, truncVars>>

\* ---------------------------------------------------------- specifications
\* A table that is never used, for the behaviours of load_file.
IdleVec ==
    /\ vocab = <<>>
    /\ has_vocab = FALSE
    /\ skim = None
    /\ has_dicts = FALSE
    /\ d_stoi = <<>>
    /\ d_itos = <<>>
    /\ loaded = FALSE
    /\ loads = 0
    /\ ret = Ret("init", "", 0, <<>>, "")

\* load_file reading one file.
Init == InitLoad /\ IdleVec /\ IdleClean /\ IdleTrunc /\ IdleCorpus

Next ==
    \/ BlankLine
    \/ DocEndLine
    \/ IgnoredLine
    \/ ShortRecord
    \/ TokenRecord
    \/ LabelToken
    \/ EndOfFile

Spec == Init /\ [][Next]_vars

\* One LazyVectors table and the calls made on it.
InitVectors == InitVec /\ InitLoad /\ IdleClean /\ IdleTrunc /\ IdleCorpus

NextVectors ==
    \/ SetVocab
    \/ CallStoi
    \/ CallItos
    \/ CallWeights

SpecVectors == InitVectors /\ [][NextVectors]_vars

\* One call of clean_token.
InitCleanToken == InitClean /\ InitLoad /\ IdleVec /\ IdleTrunc /\ IdleCorpus

NextClean == CleanToken

SpecClean == InitCleanToken /\ [][NextClean]_vars

\* One call of Document.truncate.
InitTruncate == InitTrunc /\ InitLoad /\ IdleVec /\ IdleClean /\ IdleCorpus

NextTruncate == Truncate

SpecTruncate == InitTruncate /\ [][NextTruncate]_vars

\* The module level: the corpus is read and the vector table built from it.
InitModule == InitCorpus /\ InitLoad /\ IdleVec /\ IdleClean /\ IdleTrunc

NextModule ==
    \/ ReadCorpus
    \/ FromCorpus

SpecModule == InitModule /\ [][NextModule]_vars

\* ------------------------------------------------ load_file: the properties
\* The entry of the coreference column that LabelToken processes next.
CurTok == Head(coref_expr)

\* The pending-mention list when the entry's close marker is processed: the
\* entry's own open marker, if it has one, has been pushed.
PendingAtClose ==
    IF CurTok.open
    THEN Append(corefs, [label |-> CurTok.label, start |-> index,
                         end |-> None, span |-> <<>>])
    ELSE corefs

\* Positions of the pending mentions a close marker of the entry can resolve.
OpenPositions ==
    { k \in 1..Len(PendingAtClose) :
        PendingAtClose[k].label = CurTok.label /\ PendingAtClose[k].end = None }

ClosesNow == pc = "labels" /\ CurTok.close

\* C1: a close marker for label L at token index k, with an unresolved mention
\* of L pending, gives end = k to the most recently opened such mention (the
\* last one of the list) and changes no other mention; so of two pending
\* mentions of one label the later opened is resolved first.
C1_LifoClose ==
    [][ (ClosesNow /\ OpenPositions # {}) =>
          LET m == CHOOSE k \in OpenPositions : \A j \in OpenPositions : j <= k
          IN /\ pc' # "error"
             /\ Len(corefs') = Len(PendingAtClose)
             /\ corefs'[m] = [PendingAtClose[m] EXCEPT !.end = index]
             /\ \A j \in 1..Len(PendingAtClose) :
                    j # m => corefs'[j] = PendingAtClose[j]
             /\ utts_corefs' = utts_corefs
             /\ documents' = documents ]_vars

\* Two mentions of one label opened at indices i < j, the one opened at j
\* closed while the one opened at i is still pending.
C1_Witness ==
    \E a, b \in 1..Len(corefs) :
        /\ a < b
        /\ corefs[a].label = corefs[b].label
        /\ corefs[a].start < corefs[b].start
        /\ corefs[a].end = None
        /\ corefs[b].end # None

\* C2: a close marker for label L with no unresolved mention of L pending fails
\* with an out-of-range or lookup error (so that no mention's end is changed).
C2_CloseWithoutOpenFails ==
    [][ (ClosesNow /\ OpenPositions = {}) =>
          /\ pc' = "error"
          /\ err' \in {"IndexError", "UnboundLocalError"} ]_vars

\* C3: after a two-field line every accumulator that feeds the next document is
\* empty or zero, the pending per-utterance buffers included.
C3_DocEndResetsAll ==
    [][ (DocEndLine /\ pc' # "error") =>
          /\ tokens' = <<>>
          /\ utts_corefs' = <<>>
          /\ text' = <<>>
          /\ corefs' = <<>>
          /\ utts_speakers' = <<>>
          /\ index' = 0 ]_vars

\* C4: a two-field line read while a mention accumulated for the document has
\* no end is reported as an error, and no emitted Document holds a mention
\* without an end.
C4_UnresolvedReported ==
    /\ [][ (DocEndLine /\ Unresolved(utts_corefs \o corefs)) => pc' = "error" ]_vars
    /\ [](\A d \in 1..Len(documents) : ~Unresolved(documents[d].corefs))

Resolved(m) == m.end # None /\ m.end >= m.start

\* C5: on well-formed input nothing fails, every mention handed to a Document
\* is resolved with end >= start, and an entry with both markers yields a
\* mention with start = end = the record's index.
C5_WellFormedResolved ==
    /\ [](wf =>
            /\ pc # "error"
            /\ \A d \in 1..Len(documents) :
                 \A k \in 1..Len(documents[d].corefs) : Resolved(documents[d].corefs[k])
            /\ (pc = "line" /\ ~in_utt) =>
                 /\ corefs = <<>>
                 /\ \A k \in 1..Len(utts_corefs) : Resolved(utts_corefs[k]))
    /\ [][ (pc = "labels" /\ CurTok.open /\ CurTok.close) =>
             /\ Len(corefs') = Len(corefs) + 1
             /\ corefs'[Len(corefs')].label = CurTok.label
             /\ corefs'[Len(corefs')].start = index
             /\ corefs'[Len(corefs')].end = index ]_vars

\* A well-formed file whose Document holds a mention of several tokens and a
\* singleton mention.
C5_Witness ==
    /\ wf
    /\ pc = "done"
    /\ \E d \in 1..Len(documents) :
         \E a, b \in 1..Len(documents[d].corefs) :
            /\ documents[d].corefs[a].end > documents[d].corefs[a].start
            /\ documents[d].corefs[b].end = documents[d].corefs[b].start

\* C6: every emitted Document has as many speakers as tokens.
C6_TokensSpeakersAligned ==
    /\ Len(tokens) = Len(utts_speakers)
    /\ \A d \in 1..Len(documents) :
         Len(documents[d].tokens) = Len(documents[d].speakers)

\* A Document of two utterances with different speakers.
C6_Witness ==
    \E d \in 1..Len(documents) :
        /\ Len(documents[d].tokens) = 2
        /\ documents[d].speakers[1] # documents[d].speakers[2]


\* ---------------------------------------------- LazyVectors: the properties
WorkingSet == { vocab[k] : k \in 1..Len(vocab) }

\* C7: stoi maps every working-vocabulary token, the one at position 0
\* included, to its position + 2.
C7_StoiPositionPlusTwo ==
    (ret.op = "stoi" /\ has_dicts /\ ret.tok \in WorkingSet) =>
        /\ ret.idx >= 2
        /\ \E k \in 1..Len(vocab) : vocab[k] = ret.tok /\ ret.idx = (k - 1) + 2

\* C8: itos(stoi(t)) = t for every token t of the working vocabulary.
C8_RoundTrip ==
    has_dicts =>
        \A t \in WorkingSet : ItosOf(d_itos, StoiOf(d_stoi, t)) = t

\* C9: in every state of a table, constructed with or without a vocabulary,
\* stoi and itos never raise, stoi of a token absent from the working
\* vocabulary is 1, and itos of an unmapped index is 'UNK'.
C9_LookupsNeverRaise ==
    /\ ret.op \in {"stoi", "itos"} => ret.err = ""
    /\ (ret.op = "stoi" /\ ret.tok \notin WorkingSet) => ret.idx = unk_idx
    /\ (ret.op = "itos" /\ ret.idx \notin DOMAIN d_itos) => ret.tok = "UNK"

\* C10: weights() returns len(working vocabulary) + 2 rows: two rows of zeros,
\* then the resource's vector of each working-vocabulary token in order.
C10_WeightsRows ==
    (ret.op = "weights" /\ has_vocab) =>
        /\ ret.err = ""
        /\ Len(ret.rows) = Len(vocab) + 2
        /\ \A r \in 1..2 : \A k \in 1..loader_dim : ret.rows[r][k] = 0
        /\ \A k \in 1..Len(vocab) :
              ret.rows[k + 2] = loader_vectors[loader_stoi[vocab[k]]]

KeptChars(s) == SelectSeq(s, LAMBDA ch : ch \notin {"/", "%", "*"})

\* What substitution and stripping leave of a raw token.
Residue(token) ==
    LET t == IF token \in DOMAIN NORMALIZE_DICT THEN NORMALIZE_DICT[token] ELSE token
    IN IF t \in {<<"/">>, <<"%">>, <<"*">>} THEN t ELSE KeptChars(t)

\* The raw token is not empty and has removed characters only.
SolelyRemoved(token) == token # <<>> /\ KeptChars(token) = <<>>

\* C13 as stated: every non-empty token made of removed characters only, of
\* any length, is returned unchanged by clean_token.
C13_AllRemovedUnchanged ==
    (ct_pc = "return" /\ SolelyRemoved(ct_token)) => cleaned_token = ct_token

\* C13: a token that is exactly one removed character is returned unchanged;
\* a longer token made of removed characters only is returned as the comma.
C13_SingleRemovedUnchanged ==
    (ct_pc = "return" /\ SolelyRemoved(ct_token)) =>
        cleaned_token = IF Len(ct_token) = 1 THEN ct_token ELSE <<",">>

\* clean_token returned from '/%'.
C13_Witness ==
    /\ ct_pc = "return"
    /\ ct_token = <<"/", "%">>
    /\ cleaned_token = <<",">>

\* C14: clean_token returns for every raw token, never the empty string: the
\* comma when substitution and stripping leave nothing, what they leave
\* otherwise.
C14_NeverEmpty ==
    /\ [](ct_pc = "return" =>
            /\ cleaned_token # <<>>
            /\ Residue(ct_token) = <<>> => cleaned_token = <<",">>
            /\ Residue(ct_token) # <<>> => cleaned_token = Residue(ct_token))
    /\ [](ct_pc = "call" => ENABLED CleanToken)

\* clean_token returned from a token that stripping empties.
C14_Witness ==
    /\ ct_pc = "return"
    /\ ct_token = <<"*", "*", "/">>
    /\ Residue(ct_token) = <<>>
    /\ cleaned_token = <<",">>

\* -------------------------------------------- read_corpus: the properties
\* C12 as stated: when no file is found, read_corpus returns a Corpus of zero
\* documents with an empty vocabulary, and building the vector table from
\* that vocabulary ends in an EmptyCorpus error.
C12_EmptyCorpusReported ==
    (c_pc \in {"corpus", "vectors"} /\ parse_filenames(dir) = <<>>) =>
        /\ train_corpus.documents = <<>>
        /\ train_corpus.vocab = {}
        /\ c_pc = "vectors" => ret.err = "EmptyCorpus"

\* --------------------------------------- Document.truncate: the properties
\* C15 as stated: when truncate truncates with boundary i, the returned
\* tokens run from the position of sentence boundary i-50 up to and including
\* the position of sentence boundary i, whose token is the last of the result.
C15_SliceIncludesBoundary ==
    (t_pc = "return" /\ sample # None /\ sample >= LookBack) =>
        LET snt == sentences(doc.tokens)
        IN /\ truncated.tokens =
                SubSeq(doc.tokens, snt[sample - LookBack + 1] + 1, snt[sample + 1] + 1)
           /\ truncated.tokens[Len(truncated.tokens)] = doc.tokens[snt[sample + 1] + 1]

\* C16 as stated: for every Document and every MAX >= 1, truncate returns
\* without error and the returned Document has at most MAX sentence-ending
\* tokens, whatever boundary was drawn.
C16_AtMostMaxSentences ==
    t_pc # "call" =>
        /\ t_pc = "return"
        /\ Len(sentences(truncated.tokens)) <= MAX

\* C17 as stated: the Document truncate returns has as many speakers as
\* tokens, and the Document it was called on is left as it was.
C17_TruncatePreservesAlignment ==
    /\ [](t_pc = "return" => Len(truncated.tokens) = Len(truncated.speakers))
    /\ [][t_pc = "call" => doc' = doc]_vars

\* ------------------------------------- load_file: tokens, speakers and index
\* The Document a two-field line has just appended.
Emitted == documents'[Len(documents')]

\* A two-field line is read and a Document is appended.
Emits == DocEndLine /\ pc' # "error"

\* C18 as stated: in an emitted Document the speaker at position p is field 9
\* of the token record that produced the token at position p, also when the
\* records of one utterance name different speakers.
C18_SpeakerOfOwnRecord ==
    [][ Emits => \A p \in 1..Len(Emitted.tokens) :
                    /\ p <= Len(Emitted.speakers)
                    /\ Emitted.speakers[p] = doc_recs[p].spk ]_vars

\* C19 as stated: the tokens of an emitted Document are the normalized tokens,
\* in order, of all token records read since the previous two-field line, a
\* last utterance without a blank line after it included, and the start and
\* end of every mention are positions of that token list.
C19_NoTokenLost ==
    [][ Emits =>
          /\ Emitted.tokens = [p \in 1..Len(doc_recs) |-> clean_token(doc_recs[p].raw)]
          /\ \A m \in 1..Len(Emitted.corefs) :
                /\ Emitted.corefs[m].start \in 0..(Len(Emitted.tokens) - 1)
                /\ Emitted.corefs[m].end \in 0..(Len(Emitted.tokens) - 1) ]_vars

\* A step of TokenRecord, or a step of LabelToken that does not raise.
ReadsRecord == nrec' = nrec + 1 \/ (pc = "labels" /\ pc' # "error")

\* A step of BlankLine or IgnoredLine.
SkipsLine ==
    pc = "line" /\ pc' = "line" /\ nrec' = nrec /\ documents' = documents

\* C20: between lines index is the number of tokens of the current document,
\* flushed or pending; a token record adds exactly one to it, when its last
\* coreference entry is done, blank and ignored lines leave it, and it is 0
\* after a two-field line.
C20_IndexCountsTokens ==
    /\ [](pc = "line" => index = Len(tokens) + Len(text))
    /\ [][ /\ (ReadsRecord /\ pc' = "line") => index' = index + 1
           /\ (ReadsRecord /\ pc' = "labels") =>
                 (index' = index /\ index' = Len(tokens') + Len(text') - 1)
           /\ SkipsLine => index' = index
           /\ Len(documents') > Len(documents) => index' = 0 ]_vars

\* A token record with two coreference entries has been read after another
\* token record and a blank line.
C20_Witness ==
    /\ pc = "line"
    /\ Len(tokens) = 1
    /\ Len(text) = 1
    /\ nent = 2
    /\ index = 2

====
